---- MODULE Spec2Model ----
(***************************************************************************)
(* Chunked parallel uploader of cloud/examples: UploadFileToS3 in          *)
(* test_fenduan.cc (multipart API) and test_bingfa.cc (one PUT per part).  *)
(* One coordinator thread reads the file part by part and hands each part  *)
(* to a std::async task; a vector of futures is the sliding window.        *)
(***************************************************************************)
EXTENDS Integers, Sequences, FiniteSets, TLC

\* ---- bounds of the model ------------------------------------------------
MaxLen == 5
MaxPartSize == 3
MaxThreads == 3

Variants == {"multipart", "singleput"}
Programs == Variants \cup {"kvexample"}
UploadIds == {"uid-a", "uid-b"}
TransportErrors == {"AccessDenied", "RequestTimeout"}

VARIABLES
    variant,          \* which of the two UploadFileToS3 is running
    source,           \* the bytes of the file at file_path
    part_size,        \* parameter part_size
    thread_count,     \* parameter thread_count
    pc,               \* position of the coordinator thread
    apiInit,          \* calls of Aws::InitAPI
    apiShutdown,      \* calls of Aws::ShutdownAPI
    live,             \* block-scoped objects that are constructed and not yet destroyed
    exitKind,         \* how the inner block is being left: "none", "normal", "return", "throw"
    upload_id,        \* std::string upload_id ("" before it is assigned)
    filePos,          \* read position of the ifstream
    failbit,          \* failbit|eofbit of the ifstream
    gcount,           \* file.gcount() of the last read
    buffer,           \* std::vector<char> buffer of the coordinator
    part_number,      \* part_number (multipart) / part_index (single PUT)
    futures,          \* std::vector<std::future<void>>: ordinals of the tasks, oldest first
    joinIdx,          \* position of the final for loop over futures (1-based)
    tasks,            \* every task started by std::async, in submission order
    completed_parts,  \* std::vector<CompletedPart>
    arrival,          \* part numbers in the order of the push_back calls (history)
    mutexOwner,       \* completed_parts_mutex / print_mutex: 0 when free, else the holder's position in tasks
    printed,          \* part indices printed to std::cout by the single-PUT tasks
    error,            \* the exception in flight or caught by main
    rethrownBy,       \* ordinal of the task whose future's get() rethrew, -1 when none
    ub,               \* TRUE once a task has used a destroyed object
    srvSession,       \* server: upload id issued by CreateMultipartUpload ("" when none)
    srvParts,         \* server: parts/objects stored by UploadPart / PutObject
    createCalls,      \* CreateMultipartUpload calls issued
    completeCalls,    \* CompleteMultipartUpload calls issued
    manifest,         \* part list of the last CompleteMultipartUpload request
    completeId,       \* upload id of the last CompleteMultipartUpload request
    completeOk,       \* outcome of the last CompleteMultipartUpload request
    srvOpen,          \* server: the multipart session is open (created, not completed)
    issued,           \* names of the S3 operations called so far
    kvpc,             \* cloud_durable_example main: position in the script
    db,               \* contents of the database at kDBPath: key -> value or Absent
    kvStatus,         \* Status s of main
    kvValue,          \* std::string value of main
    kvOut,            \* key/value lines printed by the iterator loop
    kvExit,           \* how main ended: "none", "return 0", "return -1", "abort"
    lateSubmits       \* ordinals of the parts submitted when an earlier task had already failed (history)

vars == <<variant, source, part_size, thread_count, pc, apiInit, apiShutdown,
          live, exitKind, upload_id, filePos, failbit, gcount, buffer,
          part_number, futures, joinIdx, tasks, completed_parts, arrival,
          mutexOwner, printed, error, rethrownBy, ub, srvSession, srvParts, createCalls,
          completeCalls, manifest, completeId, completeOk,
          srvOpen,
          issued,
          kvpc, db, kvStatus, kvValue, kvOut, kvExit,
          lateSubmits>>

params == <<variant, source, part_size, thread_count>>

kvVars == <<kvpc, db, kvStatus, kvValue, kvOut, kvExit>>

\* everything of the uploaders except the two SDK lifecycle counters
uploaderVars == <<live, exitKind, upload_id, filePos, failbit, gcount, buffer,
                  part_number, futures, joinIdx, tasks, completed_parts,
                  arrival, mutexOwner, printed, error, rethrownBy, ub,
                  srvSession, srvParts, createCalls, completeCalls, manifest,
                  completeId, completeOk, srvOpen, issued, lateSubmits>>

\* ---- helpers ------------------------------------------------------------
Min(a, b) == IF a < b THEN a ELSE b

\* the file written by the caller: byte k of the file (1-based) has value k
FileOfLength(n) == [k \in 1..n |-> k % 256]

\* first index handed out: size_t part_number = 1 / size_t part_index = 0
FirstIndex(v) == IF v = "multipart" THEN 1 ELSE 0

\* std::vector<char>::resize(n): truncate, or pad with value-initialised chars
Resize(vec, n) == [k \in 1..n |-> IF k <= Len(vec) THEN vec[k] ELSE 0]

\* istream::read(dst, n) on the bytes left: the bytes extracted
Extracted(src, pos, n) == SubSeq(src, pos + 1, pos + Min(n, Len(src) - pos))

\* the buffer after read(): the extracted bytes overwrite its prefix
Overwrite(vec, bytes) ==
    [k \in 1..Len(vec) |-> IF k <= Len(bytes) THEN bytes[k] ELSE vec[k]]

RECURSIVE SumBytes(_)
SumBytes(s) == IF s = <<>> THEN 0 ELSE Head(s) + SumBytes(Tail(s))

\* the store's ETag of a body: a digest of its bytes
ETagOf(body) == (31 * SumBytes(body) + Len(body)) % 251

\* exception text of upload_part
PartErrorWhat(v, index, msg) ==
    IF v = "multipart"
    THEN <<"Failed to upload part: ", msg>>
    ELSE <<"Failed to upload part ", ToString(index), ": ", msg>>

NoError == [kind |-> "none", what |-> <<>>]

\* std::sort with the comparator a.GetPartNumber() < b.GetPartNumber()
RECURSIVE InsertPart(_, _)
InsertPart(p, sorted) ==
    IF sorted = <<>> THEN <<p>>
    ELSE IF p.PartNumber < Head(sorted).PartNumber THEN <<p>> \o sorted
    ELSE <<Head(sorted)>> \o InsertPart(p, Tail(sorted))

NoSort(parts) == parts
RECURSIVE SortParts(_)
SortParts(parts) ==
    IF parts = <<>> THEN <<>>
    ELSE InsertPart(Head(parts), SortParts(Tail(parts)))

\* declaration order of the objects of the inner block that tasks refer to
DeclOrder(v) ==
    IF v = "multipart"
    THEN <<"s3_client", "file", "completed_parts", "mutex", "futures">>
    ELSE <<"s3_client", "file", "futures", "mutex">>

\* the shared state of a task's future is ready: it returned or it threw
ReadyOnlyOnSuccess(t) == t.pc = "done"
Terminated(t) == t.pc \in {"done", "failed"}

\* if (futures.size() >= thread_count)
WindowFullOffByOne(n, limit) == n > limit
WindowFull(n, limit) == n >= limit

\* the loop condition file.read(buffer.data(), part_size) || file.gcount() > 0
LoopConditionReadOnly(readOk, count) == readOk
LoopCondition(readOk, count) == readOk \/ count > 0

\* futures.front(): the oldest future of the window
Back(futs) == futs[Len(futs)]
Front(futs) == Head(futs)

\* the final for loop has visited every future
JoinFinishedEarly(idx, n) == idx >= n
JoinFinished(idx, n) == idx > n

\* where the coordinator goes when get() rethrows: nothing catches the exception
\* inside UploadFileToS3, so the block is left
FailedGetContinues(v) == "submit"
FailedGetPc(v) == "unwind"

\* if (!create_response.IsSuccess()) { ...; return; }
AfterCreateNoReturn(ok) == "open"
AfterCreate(ok) == IF ok THEN "open" ELSE "unwind"

\* the S3 operation a part task calls: UploadPart / PutObject
UploadOperation(v) == IF v = "multipart" THEN "UploadPart" ELSE "PutObject"

\* S3 operations called when a part or the completion has failed: the failure
\* branches only print or throw
AbortOnFailure(v) == {"AbortMultipartUpload"}
FailureCleanup(v) == {}

\* ---- key-value example ---------------------------------------------------
Keys == {"key1", "key2"}
Absent == "<absent>"
\* values a database left at kDBPath by an earlier run may hold
StoredValues == {"value", "old"}

\* DB::Put(key, value)
DbPut(d, key, val) == [d EXCEPT ![key] = val]

\* DB::Delete(key)
DbDelete(d, key) == [d EXCEPT ![key] = Absent]

\* DB::Get(key, &value): the status
DbGetStatus(d, key) == IF d[key] = Absent THEN "NotFound" ELSE "OK"

\* DB::Get(key, &value): value afterwards (left alone when the key is not found)
DbGetValue(d, key, old) == IF d[key] = Absent THEN old ELSE d[key]

\* one update of a WriteBatch applied to the contents
ApplyUpdate(d, u) ==
    IF u.op = "Put" THEN DbPut(d, u.key, u.value) ELSE DbDelete(d, u.key)

\* DB::Write(batch): every update of the batch, in order, as one step
ApplyFirstUpdateOnly(d, batch) ==
    IF batch = <<>> THEN d ELSE ApplyUpdate(d, Head(batch))
RECURSIVE ApplyBatch(_, _)
ApplyBatch(d, batch) ==
    IF batch = <<>> THEN d
    ELSE ApplyBatch(ApplyUpdate(d, Head(batch)), Tail(batch))

\* WriteBatch batch; batch.Delete("key1"); batch.Put("key2", value);
ExampleBatchWithoutDelete(val) ==
    <<[op |-> "Put", key |-> "key2", value |-> val]>>
ExampleBatch(val) ==
    <<[op |-> "Delete", key |-> "key1", value |-> ""],
      [op |-> "Put", key |-> "key2", value |-> val]>>

\* the iterator from SeekToFirst to the end: present keys in key order
IterateAll(d) ==
    (IF d["key1"] # Absent THEN <<<<"key1", d["key1"]>>>> ELSE <<>>)
        \o (IF d["key2"] # Absent THEN <<<<"key2", d["key2"]>>>> ELSE <<>>)

\* ---- initial state ------------------------------------------------------
Init ==
    /\ \/ /\ variant \in Variants
          /\ \E n \in 0..MaxLen : source = FileOfLength(n)
          /\ part_size \in 1..MaxPartSize
          /\ thread_count \in 1..MaxThreads
          /\ pc = "start"
          /\ kvpc = "none"
          /\ db = [k \in Keys |-> Absent]
       \/ /\ variant = "kvexample"
          /\ source = <<>>
          /\ part_size = 1
          /\ thread_count = 1
          /\ pc = "none"
          /\ kvpc = "start"
          /\ db \in [Keys -> StoredValues \cup {Absent}]
    /\ kvStatus = "OK"
    /\ kvValue = ""
    /\ kvOut = <<>>
    /\ kvExit = "none"
    /\ apiInit = 0
    /\ apiShutdown = 0
    /\ live = {}
    /\ exitKind = "none"
    /\ upload_id = ""
    /\ filePos = 0
    /\ failbit = FALSE
    /\ gcount = 0
    /\ buffer = <<>>
    /\ part_number = 0
    /\ futures = <<>>
    /\ joinIdx = 1
    /\ tasks = <<>>
    /\ completed_parts = <<>>
    /\ arrival = <<>>
    /\ mutexOwner = 0
    /\ printed = {}
    /\ error = NoError
    /\ rethrownBy = -1
    /\ ub = FALSE
    /\ srvSession = ""
    /\ srvParts = {}
    /\ createCalls = 0
    /\ completeCalls = 0
    /\ manifest = <<>>
    /\ completeId = ""
    /\ completeOk = FALSE
    /\ srvOpen = FALSE
    /\ issued = {}
    /\ lateSubmits = {}

\* ---- coordinator --------------------------------------------------------
\* Aws::InitAPI(options); Aws::S3::S3Client s3_client;
InitAPI ==
    /\ pc = "start"
    /\ apiInit' = apiInit + 1
    /\ live' = {"s3_client"}
    /\ pc' = IF variant = "multipart" THEN "create" ELSE "open"
    /\ UNCHANGED <<params, lateSubmits, kvVars, issued, srvOpen, apiShutdown, exitKind, upload_id, filePos, failbit,
                   gcount, buffer, part_number, futures, joinIdx, tasks,
                   completed_parts, arrival, mutexOwner, printed, error, rethrownBy, ub, srvSession,
                   srvParts, createCalls, completeCalls, manifest, completeId,
                   completeOk>>

\* s3_client.CreateMultipartUpload(create_request); early return on failure
CreateMultipartUpload ==
    /\ pc = "create"
    /\ createCalls' = createCalls + 1
    /\ \/ \E id \in UploadIds :
            /\ srvSession' = id
            /\ upload_id' = id
            /\ pc' = AfterCreate(TRUE)
            /\ UNCHANGED exitKind
       \/ /\ pc' = AfterCreate(FALSE)
          /\ exitKind' = "return"
          /\ UNCHANGED <<srvSession, upload_id>>
    /\ srvOpen' = (srvSession' # "")
    /\ issued' = issued \cup {"CreateMultipartUpload"}
    /\ UNCHANGED <<params, lateSubmits, kvVars, apiInit, apiShutdown, live, filePos, failbit,
                   gcount, buffer, part_number, futures, joinIdx, tasks,
                   completed_parts, arrival, mutexOwner, printed, error, rethrownBy, ub, srvParts,
                   completeCalls, manifest, completeId, completeOk>>

\* std::ifstream file(file_path); throw if it is not open; then the locals
\* completed_parts, the mutex, part_number, futures and buffer(part_size)
OpenFile ==
    /\ pc = "open"
    /\ \/ /\ live' = {DeclOrder(variant)[k] : k \in DOMAIN DeclOrder(variant)}
          /\ part_number' = FirstIndex(variant)
          /\ buffer' = Resize(<<>>, part_size)
          /\ pc' = "read"
          /\ UNCHANGED <<exitKind, error>>
       \/ /\ live' = live \cup {"file"}
          /\ error' = [kind |-> "open", what |-> <<"Failed to open file: ">>]
          /\ exitKind' = "throw"
          /\ pc' = "unwind"
          /\ UNCHANGED <<part_number, buffer>>
    /\ UNCHANGED <<params, lateSubmits, kvVars, issued, srvOpen, apiInit, apiShutdown, upload_id, filePos, failbit,
                   gcount, futures, joinIdx, tasks, completed_parts, arrival, mutexOwner,
                   printed, rethrownBy, ub, srvSession, srvParts, createCalls,
                   completeCalls, manifest, completeId, completeOk>>

\* while (file.read(buffer.data(), part_size) || file.gcount() > 0)
\*   { bytes_read = file.gcount(); buffer.resize(bytes_read);
\*     if (futures.size() >= thread_count) ...
ReadPart ==
    /\ pc = "read"
    /\ LET bytes == IF failbit THEN <<>> ELSE Extracted(source, filePos, part_size)
           n == Len(bytes)
           readOk == ~failbit /\ n = part_size
       IN /\ gcount' = n
          /\ filePos' = filePos + n
          /\ failbit' = (failbit \/ n < part_size)
          /\ IF LoopCondition(readOk, n)
             THEN /\ buffer' = Resize(Overwrite(buffer, bytes), n)
                  /\ pc' = IF WindowFull(Len(futures), thread_count)
                           THEN "wait" ELSE "submit"
             ELSE /\ buffer' = Overwrite(buffer, bytes)
                  /\ pc' = "join"
    /\ UNCHANGED <<params, lateSubmits, kvVars, issued, srvOpen, apiInit, apiShutdown, live, exitKind, upload_id,
                   part_number, futures, joinIdx, tasks, completed_parts, arrival, mutexOwner,
                   printed, error, rethrownBy, ub, srvSession, srvParts, createCalls,
                   completeCalls, manifest, completeId, completeOk>>

\* the task started by std::async(std::launch::async, upload_part, index, buffer):
\* both arguments are copied into the task when it is created
NewTask(index, buf) ==
    [part |-> index, arg |-> buf, pc |-> "run", body |-> <<>>, etag |-> 0,
     what |-> <<>>]

\* futures.front().get(); futures.erase(futures.begin());
WaitFront ==
    /\ pc = "wait"
    /\ LET t == tasks[Front(futures) + 1]
       IN /\ Terminated(t)
          /\ IF t.pc = "failed"
             THEN /\ error' = [kind |-> "part", what |-> t.what]
                  /\ rethrownBy' = Front(futures)
                  /\ exitKind' = "throw"
                  /\ pc' = FailedGetPc(variant)
                  /\ UNCHANGED futures
             ELSE /\ futures' = Tail(futures)
                  /\ pc' = "submit"
                  /\ UNCHANGED <<error, rethrownBy, exitKind>>
    /\ issued' = IF tasks[Front(futures) + 1].pc = "failed"
                 THEN issued \cup FailureCleanup(variant) ELSE issued
    /\ UNCHANGED <<params, lateSubmits, kvVars, srvOpen, apiInit, apiShutdown, live, upload_id, filePos,
                   failbit, gcount, buffer, part_number, joinIdx, tasks,
                   completed_parts, arrival, mutexOwner, printed, ub, srvSession,
                   srvParts, createCalls, completeCalls, manifest, completeId,
                   completeOk>>

\* futures.push_back(std::async(...)); part_number++; buffer.resize(part_size);
SubmitPart ==
    /\ pc = "submit"
    /\ tasks' = Append(tasks, NewTask(part_number, buffer))
    /\ futures' = Append(futures, Len(tasks))
    /\ part_number' = part_number + 1
    /\ buffer' = Resize(buffer, part_size)
    /\ pc' = "read"
    /\ lateSubmits' = IF \E k \in DOMAIN tasks : tasks[k].pc = "failed"
                      THEN lateSubmits \cup {Len(tasks)} ELSE lateSubmits
    /\ UNCHANGED <<params, kvVars, issued, srvOpen, apiInit, apiShutdown, live, exitKind, upload_id,
                   filePos, failbit, gcount, joinIdx, completed_parts, arrival,
                   mutexOwner, printed, error, rethrownBy, ub, srvSession,
                   srvParts, createCalls, completeCalls, manifest, completeId,
                   completeOk>>

\* for (auto& future : futures) future.get();  file.close();
JoinNext ==
    /\ pc = "join"
    /\ IF JoinFinished(joinIdx, Len(futures))
       THEN /\ IF variant = "multipart"
               THEN pc' = "complete" /\ UNCHANGED exitKind
               ELSE pc' = "unwind" /\ exitKind' = "normal"
            /\ UNCHANGED <<joinIdx, error, rethrownBy>>
       ELSE LET t == tasks[futures[joinIdx] + 1]
            IN /\ Terminated(t)
               /\ IF t.pc = "failed"
                  THEN /\ error' = [kind |-> "part", what |-> t.what]
                       /\ rethrownBy' = futures[joinIdx]
                       /\ exitKind' = "throw"
                       /\ pc' = FailedGetPc(variant)
                       /\ UNCHANGED joinIdx
                  ELSE /\ joinIdx' = joinIdx + 1
                       /\ UNCHANGED <<pc, error, rethrownBy, exitKind>>
    /\ issued' = IF /\ ~JoinFinished(joinIdx, Len(futures))
                    /\ tasks[futures[joinIdx] + 1].pc = "failed"
                 THEN issued \cup FailureCleanup(variant) ELSE issued
    /\ UNCHANGED <<params, lateSubmits, kvVars, srvOpen, apiInit, apiShutdown, live, upload_id, filePos,
                   failbit, gcount, buffer, part_number, futures, tasks,
                   completed_parts, arrival, mutexOwner, printed, ub, srvSession,
                   srvParts, createCalls, completeCalls, manifest, completeId,
                   completeOk>>

\* std::sort(completed_parts...); s3_client.CompleteMultipartUpload(complete_request);
CompleteMultipartUpload ==
    /\ pc = "complete"
    /\ completed_parts' = SortParts(completed_parts)
    /\ manifest' = completed_parts'
    /\ completeId' = upload_id
    /\ completeCalls' = completeCalls + 1
    /\ completeOk' \in BOOLEAN
    /\ exitKind' = "normal"
    /\ pc' = "unwind"
    /\ srvOpen' = ~completeOk'
    /\ issued' = issued \cup {"CompleteMultipartUpload"}
                  \cup (IF completeOk' THEN {} ELSE FailureCleanup(variant))
    /\ UNCHANGED <<params, lateSubmits, kvVars, apiInit, apiShutdown, live, upload_id, filePos,
                   failbit, gcount, buffer, part_number, futures, joinIdx,
                   tasks, arrival, mutexOwner, printed, error, rethrownBy, ub,
                   srvSession, srvParts, createCalls>>

\* the object destroyed next when the inner block is left: reverse declaration order
RECURSIVE LastLive(_, _)
LastLive(order, alive) ==
    IF order[Len(order)] \in alive THEN order[Len(order)]
    ELSE LastLive(SubSeq(order, 1, Len(order) - 1), alive)

\* leaving the inner block (normally, by return or by an exception): one destructor;
\* the destructor of a future returned by std::async waits for its task
Destroy ==
    /\ pc = "unwind"
    /\ live # {}
    /\ LET obj == LastLive(DeclOrder(variant), live)
       IN /\ obj = "futures" => \A k \in DOMAIN tasks : Terminated(tasks[k])
          /\ live' = live \ {obj}
          /\ ub' = (ub \/ (obj = "mutex" /\ mutexOwner # 0))
    /\ UNCHANGED <<params, lateSubmits, kvVars, issued, srvOpen, pc, apiInit, apiShutdown, exitKind, upload_id,
                   filePos, failbit, gcount, buffer, part_number, futures,
                   joinIdx, tasks, completed_parts, arrival, mutexOwner, printed, error,
                   rethrownBy, srvSession, srvParts, createCalls,
                   completeCalls, manifest, completeId, completeOk>>

\* Aws::ShutdownAPI(options); after the block was left normally
ShutdownAPI ==
    /\ pc = "unwind"
    /\ live = {}
    /\ exitKind = "normal"
    /\ apiShutdown' = apiShutdown + 1
    /\ pc' = "done"
    /\ UNCHANGED <<params, lateSubmits, kvVars, issued, srvOpen, apiInit, live, exitKind, upload_id, filePos,
                   failbit, gcount, buffer, part_number, futures, joinIdx,
                   tasks, completed_parts, arrival, mutexOwner, printed, error,
                   rethrownBy, ub, srvSession, srvParts, createCalls,
                   completeCalls, manifest, completeId, completeOk>>

\* the return after a failed CreateMultipartUpload leaves the function
EarlyReturn ==
    /\ pc = "unwind"
    /\ live = {}
    /\ exitKind = "return"
    /\ pc' = "done"
    /\ UNCHANGED <<params, lateSubmits, kvVars, issued, srvOpen, apiInit, apiShutdown, live, exitKind, upload_id,
                   filePos, failbit, gcount, buffer, part_number, futures,
                   joinIdx, tasks, completed_parts, arrival, mutexOwner, printed, error,
                   rethrownBy, ub, srvSession, srvParts, createCalls,
                   completeCalls, manifest, completeId, completeOk>>

\* main: catch (const std::exception& e) { std::cerr << e.what() }
Catch ==
    /\ pc = "unwind"
    /\ live = {}
    /\ exitKind = "throw"
    /\ pc' = "caught"
    /\ UNCHANGED <<params, lateSubmits, kvVars, issued, srvOpen, apiInit, apiShutdown, live, exitKind, upload_id,
                   filePos, failbit, gcount, buffer, part_number, futures,
                   joinIdx, tasks, completed_parts, arrival, mutexOwner, printed, error,
                   rethrownBy, ub, srvSession, srvParts, createCalls,
                   completeCalls, manifest, completeId, completeOk>>

\* ---- part tasks ---------------------------------------------------------
\* the bytes a task writes into its request stream: its own copy of the buffer
TaskBodyByReference(t, buf) == buf
TaskBody(t, buf) == t.arg

\* upload_part up to the response of UploadPart / PutObject; on failure it throws
TaskUpload(i) ==
    /\ pc # "crashed"
    /\ tasks[i].pc = "run"
    /\ LET t == tasks[i]
           body == TaskBody(t, buffer)
       IN \/ /\ srvParts' = srvParts \cup
                    {[key |-> t.part, body |-> body, session |-> upload_id,
                      etag |-> ETagOf(body)]}
             /\ tasks' = [tasks EXCEPT ![i].pc = "resp_ok", ![i].body = body,
                                       ![i].etag = ETagOf(body)]
          \/ \E msg \in TransportErrors :
                /\ tasks' = [tasks EXCEPT ![i].pc = "failed", ![i].body = body,
                               ![i].what = PartErrorWhat(variant, t.part, msg)]
                /\ UNCHANGED srvParts
    /\ issued' = issued \cup {UploadOperation(variant)}
    /\ UNCHANGED <<params, lateSubmits, kvVars, srvOpen, pc, apiInit, apiShutdown, live, exitKind, upload_id,
                   filePos, failbit, gcount, buffer, part_number, futures,
                   joinIdx, completed_parts, arrival, mutexOwner, printed, error,
                   rethrownBy, ub, srvSession, createCalls, completeCalls,
                   manifest, completeId, completeOk>>

\* std::lock_guard<std::mutex> lock(mutex): blocks while another task holds it
MutexAlwaysFree(owner) == TRUE
MutexFree(owner) == owner = 0

TaskLock(i) ==
    /\ pc # "crashed"
    /\ tasks[i].pc = "resp_ok"
    /\ "mutex" \in live
    /\ MutexFree(mutexOwner)
    /\ mutexOwner' = i
    /\ tasks' = [tasks EXCEPT ![i].pc = "locked"]
    /\ UNCHANGED <<params, lateSubmits, kvVars, issued, srvOpen, pc, apiInit, apiShutdown, live, exitKind, upload_id,
                   filePos, failbit, gcount, buffer, part_number, futures,
                   joinIdx, completed_parts, arrival, printed, error, rethrownBy, ub,
                   srvSession, srvParts, createCalls, completeCalls, manifest,
                   completeId, completeOk>>

\* locking a mutex whose destructor has run is undefined: the lock may be taken,
\* may throw std::system_error inside the task, or may bring the process down
TaskLockDestroyed(i) ==
    /\ pc # "crashed"
    /\ tasks[i].pc = "resp_ok"
    /\ "mutex" \notin live
    /\ ub' = TRUE
    /\ \/ /\ mutexOwner' = i
          /\ tasks' = [tasks EXCEPT ![i].pc = "locked"]
          /\ UNCHANGED pc
       \/ /\ tasks' = [tasks EXCEPT ![i].pc = "failed",
                                    ![i].what = <<"std::system_error">>]
          /\ UNCHANGED <<pc, mutexOwner>>
       \/ /\ pc' = "crashed"
          /\ UNCHANGED <<tasks, mutexOwner>>
    /\ UNCHANGED <<params, lateSubmits, kvVars, issued, srvOpen, apiInit, apiShutdown, live, exitKind, upload_id,
                   filePos, failbit, gcount, buffer, part_number, futures,
                   joinIdx, completed_parts, arrival, printed, error, rethrownBy,
                   srvSession, srvParts, createCalls, completeCalls, manifest,
                   completeId, completeOk>>

\* inside the lock: completed_parts.push_back(completed_part) (multipart) or the
\* "Uploaded part" line on std::cout (single PUT); the lock_guard then unlocks
TaskPush(i) ==
    /\ pc # "crashed"
    /\ tasks[i].pc = "locked"
    /\ IF variant = "multipart"
       THEN /\ completed_parts' = Append(completed_parts,
                    [PartNumber |-> tasks[i].part, ETag |-> tasks[i].etag])
            /\ arrival' = Append(arrival, tasks[i].part)
            /\ UNCHANGED printed
       ELSE /\ printed' = printed \cup {tasks[i].part}
            /\ UNCHANGED <<completed_parts, arrival>>
    /\ mutexOwner' = 0
    /\ ub' = (ub \/ "mutex" \notin live)
    /\ tasks' = [tasks EXCEPT ![i].pc = "done"]
    /\ UNCHANGED <<params, lateSubmits, kvVars, issued, srvOpen, pc, apiInit, apiShutdown, live, exitKind, upload_id,
                   filePos, failbit, gcount, buffer, part_number, futures,
                   joinIdx, error, rethrownBy, srvSession, srvParts,
                   createCalls, completeCalls, manifest, completeId, completeOk>>

\* credentials.InitializeSimple(...); return -1 unless HasValid()
KvCredentials ==
    /\ kvpc = "start"
    /\ \/ kvpc' = "init" /\ UNCHANGED kvExit
       \/ kvpc' = "exit" /\ kvExit' = "return -1"
    /\ UNCHANGED <<params, pc, apiInit, apiShutdown, uploaderVars, db,
                   kvStatus, kvValue, kvOut>>

\* Aws::InitAPI(sdkoptions);
KvInitAPI ==
    /\ kvpc = "init"
    /\ apiInit' = apiInit + 1
    /\ kvpc' = "newfs"
    /\ UNCHANGED <<params, pc, apiShutdown, uploaderVars, db, kvStatus,
                   kvValue, kvOut, kvExit>>

\* CloudFileSystemEnv::NewAwsFileSystem(...); return -1 unless s.ok()
KvNewFileSystem ==
    /\ kvpc = "newfs"
    /\ \/ kvStatus' = "OK" /\ kvpc' = "open" /\ UNCHANGED kvExit
       \/ kvStatus' = "IOError" /\ kvpc' = "exit" /\ kvExit' = "return -1"
    /\ UNCHANGED <<params, pc, apiInit, apiShutdown, uploaderVars, db,
                   kvValue, kvOut>>

\* DBCloud::Open(...); return -1 unless s.ok()
KvOpen ==
    /\ kvpc = "open"
    /\ \/ kvStatus' = "OK" /\ kvpc' = "put" /\ UNCHANGED kvExit
       \/ kvStatus' = "IOError" /\ kvpc' = "exit" /\ kvExit' = "return -1"
    /\ UNCHANGED <<params, pc, apiInit, apiShutdown, uploaderVars, db,
                   kvValue, kvOut>>

\* s = db->Put(wopt, "key1", "value"); assert(s.ok());
KvPut ==
    /\ kvpc = "put"
    /\ db' = DbPut(db, "key1", "value")
    /\ kvStatus' = "OK"
    /\ kvpc' = "get1"
    /\ UNCHANGED <<params, pc, apiInit, apiShutdown, uploaderVars, kvValue,
                   kvOut, kvExit>>

\* s = db->Get(ReadOptions(), "key1", &value); assert(s.ok()); assert(value == "value");
KvGet1 ==
    /\ kvpc = "get1"
    /\ kvStatus' = DbGetStatus(db, "key1")
    /\ kvValue' = DbGetValue(db, "key1", kvValue)
    /\ IF kvStatus' = "OK" /\ kvValue' = "value"
       THEN kvpc' = "write" /\ UNCHANGED kvExit
       ELSE kvpc' = "exit" /\ kvExit' = "abort"
    /\ UNCHANGED <<params, pc, apiInit, apiShutdown, uploaderVars, db, kvOut>>

\* { WriteBatch batch; batch.Delete("key1"); batch.Put("key2", value);
\*   s = db->Write(wopt, &batch); }
KvWrite ==
    /\ kvpc = "write"
    /\ db' = ApplyBatch(db, ExampleBatch(kvValue))
    /\ kvStatus' = "OK"
    /\ kvpc' = "get2"
    /\ UNCHANGED <<params, pc, apiInit, apiShutdown, uploaderVars, kvValue,
                   kvOut, kvExit>>

\* s = db->Get(ReadOptions(), "key1", &value); assert(s.IsNotFound());
KvGet2 ==
    /\ kvpc = "get2"
    /\ kvStatus' = DbGetStatus(db, "key1")
    /\ kvValue' = DbGetValue(db, "key1", kvValue)
    /\ IF kvStatus' = "NotFound"
       THEN kvpc' = "get3" /\ UNCHANGED kvExit
       ELSE kvpc' = "exit" /\ kvExit' = "abort"
    /\ UNCHANGED <<params, pc, apiInit, apiShutdown, uploaderVars, db, kvOut>>

\* db->Get(ReadOptions(), "key2", &value); assert(value == "value");
KvGet3 ==
    /\ kvpc = "get3"
    /\ kvValue' = DbGetValue(db, "key2", kvValue)
    /\ IF kvValue' = "value"
       THEN kvpc' = "iterate" /\ UNCHANGED kvExit
       ELSE kvpc' = "exit" /\ kvExit' = "abort"
    /\ UNCHANGED <<params, pc, apiInit, apiShutdown, uploaderVars, db,
                   kvStatus, kvOut>>

\* for (it->SeekToFirst(); it->Valid(); it->Next()) print; delete it;
\* db->Flush(FlushOptions()); delete db;
KvIterateAndClose ==
    /\ kvpc = "iterate"
    /\ kvOut' = IterateAll(db)
    /\ kvpc' = "shutdown"
    /\ UNCHANGED <<params, pc, apiInit, apiShutdown, uploaderVars, db,
                   kvStatus, kvValue, kvExit>>

\* Aws::ShutdownAPI(sdkoptions); ...; return 0;
KvShutdownAPI ==
    /\ kvpc = "shutdown"
    /\ apiShutdown' = apiShutdown + 1
    /\ kvpc' = "exit"
    /\ kvExit' = "return 0"
    /\ UNCHANGED <<params, pc, apiInit, uploaderVars, db, kvStatus, kvValue,
                   kvOut>>

Next ==
    \/ InitAPI
    \/ CreateMultipartUpload
    \/ OpenFile
    \/ ReadPart
    \/ WaitFront
    \/ SubmitPart
    \/ JoinNext
    \/ CompleteMultipartUpload
    \/ Destroy
    \/ ShutdownAPI
    \/ EarlyReturn
    \/ Catch
    \/ \E i \in DOMAIN tasks : TaskUpload(i)
    \/ \E i \in DOMAIN tasks : TaskLock(i)
    \/ \E i \in DOMAIN tasks : TaskLockDestroyed(i)
    \/ \E i \in DOMAIN tasks : TaskPush(i)
    \/ KvCredentials
    \/ KvInitAPI
    \/ KvNewFileSystem
    \/ KvOpen
    \/ KvPut
    \/ KvGet1
    \/ KvWrite
    \/ KvGet2
    \/ KvGet3
    \/ KvIterateAndClose
    \/ KvShutdownAPI

Spec == Init /\ [][Next]_vars

\* the steps of the thread that runs UploadFileToS3
CoordinatorNext ==
    \/ InitAPI
    \/ CreateMultipartUpload
    \/ OpenFile
    \/ ReadPart
    \/ WaitFront
    \/ SubmitPart
    \/ JoinNext
    \/ CompleteMultipartUpload
    \/ Destroy
    \/ ShutdownAPI
    \/ EarlyReturn
    \/ Catch

\* every thread keeps being scheduled and every SDK call returns: a step that
\* stays possible is eventually taken
FairSpec == Spec /\ WF_vars(Next)

TypeOK ==
    /\ variant \in Programs
    /\ pc \in {"none", "start", "create", "open", "read", "wait", "submit", "join",
               "complete", "unwind", "done", "caught", "crashed"}
    /\ Len(futures) <= thread_count
    /\ mutexOwner \in 0..Len(tasks)

\* ---- properties ---------------------------------------------------------
Outstanding == {i \in DOMAIN tasks : ~Terminated(tasks[i])}

\* C1: at every instant the number of part tasks that were submitted and have
\* not yet terminated is at most thread_count
C1_BoundedOutstanding == Cardinality(Outstanding) <= thread_count

\* a full window of running tasks after an older task was already evicted
C1_Witness ==
    /\ thread_count >= 2
    /\ Len(tasks) > thread_count
    /\ Cardinality(Outstanding) = thread_count

StrictlyAscending(parts) ==
    \A i, j \in DOMAIN parts : i < j => parts[i].PartNumber < parts[j].PartNumber

\* C2: the part list of the CompleteMultipartUpload request is strictly ascending
\* by part number, whatever the order in which the tasks appended their entries
C2_ManifestSorted == completeCalls > 0 => StrictlyAscending(manifest)

\* a request was sent although the entries had arrived out of order
C2_Witness ==
    /\ completeCalls > 0
    /\ Len(manifest) >= 3
    /\ \E i, j \in DOMAIN arrival : i < j /\ arrival[i] > arrival[j]

CeilDiv(a, b) == (a + b - 1) \div b

\* the read loop has ended without an exception
ReadLoopDone == pc \in {"join", "complete"} \/ exitKind = "normal"

\* C3: when the read loop ends, it has submitted exactly ceil(L/P) parts, every
\* part but the last of length P and the last of length L - P*(ceil(L/P)-1)
C3_PartCount ==
    ReadLoopDone =>
        LET L == Len(source)
            N == CeilDiv(L, part_size)
        IN /\ Len(tasks) = N
           /\ \A i \in DOMAIN tasks :
                Len(tasks[i].arg) = IF i < N THEN part_size
                                    ELSE L - part_size * (N - 1)

\* lengths 2,2,1 for L = 5, P = 2 have been submitted
C3_Witness ==
    /\ ReadLoopDone
    /\ Len(source) = 5
    /\ part_size = 2
    /\ Len(tasks) = 3
    /\ Len(tasks[3].arg) = 1

\* source bytes [i*P, min((i+1)*P, L)) of the i-th part, i counted from 1 here
Slice(i) ==
    SubSeq(source, (i - 1) * part_size + 1, Min(i * part_size, Len(source)))

RECURSIVE ConcatBodies(_, _)
ConcatBodies(first, last) ==
    IF first > last THEN <<>>
    ELSE (CHOOSE p \in srvParts : p.key = first).body
            \o ConcatBodies(first + 1, last)

\* C4: the i-th part submitted carries index base+i and the body it uploads is
\* its slice of the source; the store holds one body per index, and after a run
\* without failure the bodies in index order concatenate to the source
C4_BodiesAreSlices ==
    /\ \A i \in DOMAIN tasks :
          /\ tasks[i].part = FirstIndex(variant) + (i - 1)
          /\ tasks[i].pc # "run" => tasks[i].body = Slice(i)
    /\ \A p \in srvParts :
          /\ p.body = Slice(p.key - FirstIndex(variant) + 1)
          /\ \A q \in srvParts : q.key = p.key => q = p
    /\ (exitKind = "normal" /\ \A i \in DOMAIN tasks : tasks[i].pc = "done") =>
          /\ {p.key : p \in srvParts} =
                FirstIndex(variant)..(FirstIndex(variant) + Len(tasks) - 1)
          /\ ConcatBodies(FirstIndex(variant),
                          FirstIndex(variant) + Len(tasks) - 1) = source

\* a task uploads its slice after the coordinator has read a later part into
\* the shared buffer
C4_Witness ==
    \E i \in DOMAIN tasks :
        /\ i < Len(tasks)
        /\ tasks[i].pc = "resp_ok"
        /\ tasks[i + 1].pc = "done"
        /\ tasks[i].body = Slice(i)
        /\ buffer # tasks[i].arg
        /\ Len(source) >= 3

\* C5: once a get() has rethrown a part failure the coordinator submits no
\* further part and never calls CompleteMultipartUpload
C5_NoRequestAfterFailure ==
    [][rethrownBy # -1 =>
          /\ Len(tasks') = Len(tasks)
          /\ \A i \in DOMAIN tasks : tasks'[i].part = tasks[i].part
          /\ completeCalls = 0
          /\ completeCalls' = 0
          /\ createCalls' = createCalls]_vars

\* a failure was observed while the source still had unread parts and other
\* tasks were still running
C5_Witness ==
    /\ rethrownBy # -1
    /\ variant = "multipart"
    /\ filePos < Len(source)
    /\ Outstanding # {}

CarriesIndex(what, index) == \E k \in DOMAIN what : what[k] = ToString(index)

CarriesTransportMessage(what) == \E k \in DOMAIN what : what[k] \in TransportErrors

\* C6: in both variants a part failure surfaced to the caller carries the index
\* of the failing part and the transport error message
C6_ErrorCarriesIndex ==
    error.kind = "part" =>
        /\ CarriesIndex(error.what, tasks[rethrownBy + 1].part)
        /\ CarriesTransportMessage(error.what)

\* C7: CompleteMultipartUpload is called at most once, only in the multipart
\* variant after every submitted task has terminated with success, with the
\* upload id issued by the one CreateMultipartUpload call, and its part list has
\* exactly one entry per part number 1..N carrying the ETag the store returned
\* for that part; a run that ends normally has made the call
C7_CompleteOnceWithAllParts ==
    /\ completeCalls <= 1
    /\ completeCalls = 1 =>
          /\ variant = "multipart"
          /\ createCalls = 1
          /\ completeId # ""
          /\ completeId = srvSession
          /\ \A i \in DOMAIN tasks : tasks[i].pc = "done"
          /\ Len(manifest) = Len(tasks)
          /\ \A n \in 1..Len(tasks) :
                /\ Cardinality({k \in DOMAIN manifest :
                                    manifest[k].PartNumber = n}) = 1
                /\ \E p \in srvParts :
                      /\ p.key = n
                      /\ p.session = completeId
                      /\ \A k \in DOMAIN manifest :
                            manifest[k].PartNumber = n =>
                                manifest[k].ETag = p.etag
    /\ (variant = "multipart" /\ pc = "done" /\ exitKind = "normal") =>
          completeCalls = 1

\* the call was made for more parts than the window holds, after the entries
\* had been appended out of order
C7_Witness ==
    /\ completeCalls = 1
    /\ completeOk
    /\ Len(tasks) > thread_count
    /\ Len(manifest) = Len(tasks)
    /\ arrival # [k \in DOMAIN arrival |-> k]

\* C8: the window always holds the youngest tasks in submission order, and every
\* part submitted thread_count or more places before another submitted part has
\* terminated with success
C8_FifoBackPressure ==
    /\ futures = [k \in 1..Len(futures) |-> Len(tasks) - Len(futures) + k - 1]
    /\ \A i, j \in DOMAIN tasks :
          j + thread_count <= i => tasks[j].pc = "done"

\* the coordinator is blocked on the oldest task of a full window although a
\* younger task of the window has already finished, after an earlier eviction
C8_Witness ==
    /\ pc = "wait"
    /\ Len(tasks) > thread_count
    /\ ~Terminated(tasks[Front(futures) + 1])
    /\ \E k \in DOMAIN futures :
          k > 1 /\ tasks[futures[k] + 1].pc = "done"

FailedUnobserved(k) == tasks[k].pc = "failed" /\ rethrownBy = -1

\* C9 as stated: between the failure of a part task and the moment the error
\* reaches the coordinator, the coordinator submits no part and completes no
\* wait on another task
C9_FailureSurfacesImmediately ==
    [][(\E k \in DOMAIN tasks : FailedUnobserved(k)) =>
          /\ Len(tasks') = Len(tasks)
          /\ futures' = futures
          /\ joinIdx' = joinIdx]_vars

\* C9 amended: a failed task whose error has not reached the coordinator is
\* still in the window, the final loop has not passed it, fewer than
\* thread_count parts were submitted after it, and CompleteMultipartUpload has
\* not been called
C9_FailureSurfacesInFifoOrder ==
    \A k \in DOMAIN tasks :
        FailedUnobserved(k) =>
            /\ \E pos \in DOMAIN futures :
                  /\ futures[pos] = k - 1
                  /\ pc = "join" => joinIdx <= pos
            /\ Len(tasks) < k + thread_count
            /\ completeCalls = 0

\* a task has failed and the coordinator is blocked on an older task instead
C9_Witness ==
    /\ pc = "wait"
    /\ ~Terminated(tasks[Front(futures) + 1])
    /\ \E k \in DOMAIN tasks : FailedUnobserved(k) /\ k - 1 # Front(futures)

\* C10: in the multipart variant CreateMultipartUpload is called once and before
\* any UploadPart; when it fails the function ends without opening or reading
\* the file, without a part task and without CompleteMultipartUpload
C10_CreateFirst ==
    variant = "multipart" =>
        /\ createCalls <= 1
        /\ (tasks # <<>> \/ completeCalls > 0) =>
              createCalls = 1 /\ srvSession # "" /\ upload_id = srvSession
        /\ \A p \in srvParts : p.session = srvSession /\ p.session # ""
        /\ exitKind = "return" =>
              /\ createCalls = 1
              /\ srvSession = ""
              /\ tasks = <<>>
              /\ srvParts = {}
              /\ completeCalls = 0
              /\ "file" \notin live
              /\ filePos = 0
              /\ ~failbit
              /\ buffer = <<>>
              /\ pc \in {"unwind", "done"}

\* the function has returned after a failed CreateMultipartUpload
C10_Witness ==
    /\ variant = "multipart"
    /\ exitKind = "return"
    /\ pc = "done"
    /\ source # <<>>

SucceededTasks == {i \in DOMAIN tasks : tasks[i].pc \in {"resp_ok", "locked", "done"}}

PartOrFinalizeFailed == error.kind = "part" \/ (completeCalls > 0 /\ ~completeOk)

\* C11: AbortMultipartUpload is never called, no step removes a stored part, and
\* after a part failure or a failed completion the session is still open and
\* holds every part whose upload succeeded
C11_NoAbortPartsOrphaned ==
    /\ []("AbortMultipartUpload" \notin issued)
    /\ []((variant = "multipart" /\ PartOrFinalizeFailed) =>
            /\ srvOpen
            /\ \A i \in SucceededTasks :
                  \E p \in srvParts :
                      p.key = tasks[i].part /\ p.session = srvSession)
    /\ [][/\ srvParts \subseteq srvParts'
          /\ (srvOpen /\ ~srvOpen') => (completeCalls' = 1 /\ completeOk')]_vars

\* the function has ended after a failed completion and the store still holds
\* the parts under the open session
C11_Witness ==
    /\ variant = "multipart"
    /\ pc = "done"
    /\ completeCalls = 1
    /\ ~completeOk
    /\ srvOpen
    /\ Cardinality(srvParts) >= 2

\* the same after a part failure
C11_WitnessPartFailure ==
    /\ variant = "multipart"
    /\ pc = "caught"
    /\ error.kind = "part"
    /\ srvOpen
    /\ Cardinality(srvParts) >= 2

InCriticalSection == {i \in DOMAIN tasks : tasks[i].pc = "locked"}

IsPrefix(a, b) == Len(a) <= Len(b) /\ SubSeq(b, 1, Len(a)) = a

\* C12: in the multipart variant at most one task is between lock and unlock of
\* completed_parts_mutex, completed_parts only grows at its end while the
\* coordinator has not reached the sort, and the coordinator reaches the sort
\* only after every submitted task has terminated
C12_InsertionsExclusive ==
    /\ [](variant = "multipart" =>
            /\ Cardinality(InCriticalSection) <= 1
            /\ (InCriticalSection # {}) => mutexOwner \in InCriticalSection
            /\ (pc = "complete" \/ completeCalls > 0) =>
                  \A i \in DOMAIN tasks : Terminated(tasks[i]))
    /\ [][(variant = "multipart" /\ pc # "complete") =>
              IsPrefix(completed_parts, completed_parts')]_vars

\* one task holds the mutex while another task with a response is kept out, and
\* an entry has already been inserted
C12_Witness ==
    /\ variant = "multipart"
    /\ completed_parts # <<>>
    /\ \E i, j \in DOMAIN tasks :
          tasks[i].pc = "locked" /\ tasks[j].pc = "resp_ok"

\* control has left UploadFileToS3 (to main, or to main's catch) or the main of
\* the key-value example
Exited == pc \in {"done", "caught"} \/ kvpc = "exit"

\* C13: every execution that called Aws::InitAPI has called Aws::ShutdownAPI
\* exactly once when control leaves it, on every exit path
C13_ShutdownBracketsInit ==
    /\ apiShutdown <= apiInit
    /\ Exited => apiShutdown = apiInit

\* C14: when the task of ordinal k has failed, no part of ordinal k +
\* thread_count or more is ever submitted; the parts submitted after a failure
\* lie within thread_count - 1 places after a failed part
C14_DetectionWithinOneWindow ==
    /\ \A k \in DOMAIN tasks :
          tasks[k].pc = "failed" => Len(tasks) - 1 < (k - 1) + thread_count
    /\ \A o \in lateSubmits :
          \E k \in DOMAIN tasks :
              /\ tasks[k].pc = "failed"
              /\ k - 1 < o
              /\ o < (k - 1) + thread_count

\* after part k failed, all of the thread_count - 1 following parts were submitted
C14_Witness ==
    /\ thread_count = 3
    /\ \E k \in DOMAIN tasks :
          /\ tasks[k].pc = "failed"
          /\ {k, k + 1} \subseteq lateSubmits
          /\ Len(tasks) = k + 2

FailedTasks == {k \in DOMAIN tasks : tasks[k].pc = "failed"}

LowestFailed == CHOOSE k \in FailedTasks : \A j \in FailedTasks : k <= j

\* C15: the part error that reaches the caller is the exception of the failed
\* task with the lowest index, and once raised it is never replaced by the
\* error of another task
C15_LowestFailedIsReported ==
    /\ [](error.kind = "part" =>
            /\ FailedTasks # {}
            /\ rethrownBy = LowestFailed - 1
            /\ error.what = tasks[LowestFailed].what)
    /\ [][error.kind = "part" => error' = error]_vars

\* main has caught the error of the lowest failed part although a later part
\* failed with another message
C15_Witness ==
    /\ pc = "caught"
    /\ error.kind = "part"
    /\ ~ub
    /\ \E j \in FailedTasks :
          /\ j > LowestFailed
          /\ CarriesTransportMessage(tasks[j].what)
          /\ tasks[j].what # error.what

\* the block-scoped objects the part tasks capture by reference
ReferencedByTasks(v) ==
    IF v = "multipart" THEN {"s3_client", "mutex", "completed_parts"}
    ELSE {"s3_client", "mutex"}

\* C16: on every exit path every submitted task has terminated before an object
\* the tasks refer to is destroyed and before control returns to the caller, and
\* no task uses such an object after its destruction
C16_TasksJoinedBeforeDestruction ==
    /\ \A obj \in ReferencedByTasks(variant) :
          (tasks # <<>> /\ obj \notin live) =>
              \A i \in DOMAIN tasks : Terminated(tasks[i])
    /\ Exited => \A i \in DOMAIN tasks : Terminated(tasks[i])
    /\ ~ub

UploaderEnded == pc \in {"done", "caught", "crashed"}

Finalized ==
    pc = "done" /\ exitKind = "normal" /\ (variant = "multipart" => completeCalls = 1)

Aborted == pc = "caught" /\ error.kind = "part"

InitiationFailed ==
    pc = "done" /\ exitKind = "return" /\ createCalls = 1 /\ tasks = <<>>

OpenFailed == pc = "caught" /\ error.kind = "open" /\ tasks = <<>>

BroughtDown == pc = "crashed" /\ ub /\ variant = "singleput" /\ error.kind = "part"

\* C17 as stated: when UploadFileToS3 has ended, either the finalize call was
\* issued or a part error was raised to the caller
C17_EndsFinalizedOrAborted == UploaderEnded => (Finalized \/ Aborted)

\* C17 amended: under fair scheduling UploadFileToS3 always ends; it ends
\* finalized, with a part error, with the return after a failed initiation, with
\* the file-open error, or with the process brought down after a task used the
\* destroyed mutex; and while it has not ended the coordinator cannot take a
\* step only when it is waiting for a part task that has not terminated
C17_Terminates ==
    /\ (variant \in Variants) => <>UploaderEnded
    /\ [](UploaderEnded =>
            Finalized \/ Aborted \/ InitiationFailed \/ OpenFailed \/ BroughtDown)
    /\ []((variant \in Variants /\ ~UploaderEnded /\ ~ENABLED CoordinatorNext) =>
            /\ Outstanding # {}
            /\ \/ pc = "wait" /\ ~Terminated(tasks[Front(futures) + 1])
               \/ pc = "join" /\ ~Terminated(tasks[futures[joinIdx] + 1])
               \/ pc = "unwind" /\ LastLive(DeclOrder(variant), live) = "futures")

\* the function has ended finalized after the coordinator had been blocked by a
\* full window
C17_Witness ==
    /\ Finalized
    /\ variant = "multipart"
    /\ Len(tasks) > thread_count
    /\ apiShutdown = 1

AfterWrite ==
    kvpc \in {"get2", "get3", "iterate", "shutdown"} \/ kvExit \in {"return 0", "abort"}

====
